---- MODULE Spec2Model ----
(***************************************************************************)
(* A model of gpt/utils.py: the Noam learning-rate schedule (NoamOpt), the *)
(* Trainer built on it, the tokenizer builder with its file cache and the  *)
(* windowed dataset (SimpleTextDataset).                                   *)
(*                                                                         *)
(* Four specifications share the module:                                   *)
(*   Spec          a Trainer driven by train_step, eval_step,              *)
(*                 save_checkpoint and load_checkpoint calls;              *)
(*   SpecLr        NoamOpt._lr evaluated along t = 1, 2, ... for fixed     *)
(*                 embed_dim and warmup_steps;                             *)
(*   SpecWindow    __len__ and __getitem__ of a SimpleTextDataset over a   *)
(*                 token stream;                                           *)
(*   SpecCache     create_train_tokenizer and SimpleTextDataset.__init__   *)
(*                 against the files on disk (SpecConstruct: the           *)
(*                 constructions alone).                                   *)
(* Every specification leaves the variables of the others at their initial *)
(* value.                                                                  *)
(***************************************************************************)
EXTENDS Integers, Sequences, FiniteSets

VARIABLES
    opt,        \* Trainer.opt, the NoamOpt: embed_dim, warmup_steps, _step,
                \* param_groups (the "lr" of each group) and the state of self.opt (Adam)
    model,      \* Trainer.model: params, grad (the .grad of the parameters), training
    disk,       \* the checkpoint files: path -> content
    last,       \* the last Trainer call: its name, how it ended, its path argument
    lrEvals,    \* history: every value of _step at which _lr has been evaluated
    lrTrace,    \* SpecLr: the rates _lr returned at t = 1, 2, ..., in order
    data,       \* SimpleTextDataset.data, the token stream
    block_size, \* SimpleTextDataset.block_size
    result,     \* the last __len__ / __getitem__ call and what it returned
    files,      \* the cache files: file name -> content
    instances,  \* the SimpleTextDataset instances constructed so far, in order
    calls,      \* history: the create_train_tokenizer calls so far, in order
    writeLog    \* history: the file writes so far, in order

trainerVars == <<opt, model, disk, last, lrEvals>>
lrVars      == <<lrTrace>>
windowVars  == <<data, block_size, result>>
cacheVars   == <<files, instances, calls, writeLog>>
vars        == <<opt, model, disk, last, lrEvals, lrTrace, data, block_size, result,
                 files, instances, calls, writeLog>>

(***************************************************************************)
(* Bounds of the model.                                                    *)
(***************************************************************************)
MaxDim      == 2   \* embed_dim ranges over 1..MaxDim
MaxWarmup   == 2   \* warmup_steps ranges over 1..MaxWarmup
MaxGroups   == 2   \* the optimizer has 1..MaxGroups parameter groups
MaxSteps    == 3   \* train_step is called while _step < MaxSteps
MaxCkptStep == 1   \* a checkpoint file found on disk was taken after 0..MaxCkptStep steps
MaxT        == 8   \* SpecLr evaluates _lr at t = 1..MaxT
LrMaxDim    == 3   \* SpecLr: embed_dim ranges over 1..LrMaxDim
LrMaxWarmup == 5   \* SpecLr: warmup_steps ranges over 1..LrMaxWarmup
MaxLen      == 4   \* a token stream has 0..MaxLen tokens
MaxTokenId  == 1   \* token ids are 0..MaxTokenId
MaxBlock    == 3   \* block_size ranges over 1..MaxBlock
MaxCalls    == 3   \* at most MaxCalls tokenizer builder calls, direct or by a construction

Max(a, b) == IF a >= b THEN a ELSE b
Min(a, b) == IF a <= b THEN a ELSE b

(***************************************************************************)
(* Rates.  The rate d^-0.5 * min(t^-0.5, t * w^-1.5) is the square root of *)
(* a rational, so a rate r >= 0 is held exactly as the fraction r^2 in     *)
(* lowest terms, <<numerator, denominator>>; squaring keeps the order and  *)
(* equality of non-negative numbers.                                       *)
(***************************************************************************)
RECURSIVE GCD(_, _)
GCD(a, b) == IF b = 0 THEN a ELSE GCD(b, a % b)

Frac(n, d) == <<n \div GCD(n, d), d \div GCD(n, d)>>

FracLess(a, b) == a[1] * b[2] < b[1] * a[2]

\* The lr NoamOpt.__init__ hands to Adam.
ZeroRate == <<0, 1>>

\* What stands for _lr() raising: 0 ** -0.5 is a ZeroDivisionError, and a
\* negative _step makes min() compare complex numbers, a TypeError.
LrUndefined == <<0, 0>>

\* A mutant of _lr: the ramp as t * w^-1 instead of t * w^-1.5.
_lr_ramp_exponent(d, w, t) ==
    IF t < 1 THEN LrUndefined
    ELSE LET decay == Frac(1, t)
             ramp  == Frac(t * t, w * w)
             m     == IF FracLess(ramp, decay) THEN ramp ELSE decay
         IN  Frac(m[1], m[2] * d)

\* NoamOpt._lr with embed_dim = d, warmup_steps = w, _step = t.
\* min(a, b) returns b only when b < a.
_lr(d, w, t) ==
    IF t < 1 THEN LrUndefined
    ELSE LET decay == Frac(1, t)                \* (t ** -0.5) ^ 2
             ramp  == Frac(t * t, w * w * w)    \* (t * w ** -1.5) ^ 2
             m     == IF FracLess(ramp, decay) THEN ramp ELSE decay
         IN  Frac(m[1], m[2] * d)               \* times (d ** -0.5) ^ 2

\* The two arguments of min in _lr, for the statements about which one it selects.
RampRate(d, w, t)  == Frac(t * t, w * w * w * d)
DecayRate(d, w, t) == Frac(1, t * d)

(***************************************************************************)
(* NoamOpt and Trainer.                                                    *)
(***************************************************************************)
Batches   == {"b1", "b2"}
Malformed == "malformed"    \* a batch without the "input" / "target" keys
NoGrad    == "None"         \* .grad is None
CkptPaths == {"ckpt.pt"}
NoFile    == [kind |-> "none"]

\* The methods class NoamOpt defines.
NoamOptMethods == {"__init__", "zero_grad", "step", "_lr", "_update_lr"}

\* NoamOpt.__init__ over n parameter groups.
NoamOpt(n, d, w) ==
    [embed_dim |-> d, warmup_steps |-> w, _step |-> 0,
     param_groups |-> [g \in 1..n |-> ZeroRate],
     state |-> <<>>]

\* The model handed to Trainer.__init__: a fresh module is in training mode.
NewModel == [params |-> <<>>, grad |-> NoGrad, training |-> TRUE]

\* One update of the underlying Adam, self.opt.step(): a parameter whose .grad
\* is None is skipped.  The parameters are the updates applied to the initial
\* ones, each with the gradient and the group rates it used; Adam's state
\* (step count and moment estimates) is the same list of updates it has seen.
AdamStep(o, m) ==
    IF m.grad = NoGrad THEN [opt |-> o, model |-> m]
    ELSE LET u == [grad |-> m.grad, lr |-> o.param_groups]
         IN  [opt   |-> [o EXCEPT !.state = Append(@, u)],
              model |-> [m EXCEPT !.params = Append(@, u)]]

\* NoamOpt._update_lr: every group gets _lr(), evaluated once per group.
\* `raised` when _lr raises; `evals` are the values of _step it was evaluated at.
_update_lr(o) ==
    LET r == _lr(o.embed_dim, o.warmup_steps, o._step)
    IN  IF r = LrUndefined
        THEN [opt |-> o, raised |-> TRUE, evals |-> {o._step}]
        ELSE [opt    |-> [o EXCEPT !.param_groups = [g \in DOMAIN @ |-> r]],
              raised |-> FALSE, evals |-> {o._step}]

\* A mutant of step: the rate is recomputed before the counter is incremented.
step_lr_before_increment(o, m) ==
    LET u == _update_lr(o)
        a == AdamStep([u.opt EXCEPT !._step = @ + 1], m)
    IN  IF u.raised
        THEN [opt |-> o, model |-> m, raised |-> TRUE, evals |-> u.evals]
        ELSE [opt |-> a.opt, model |-> a.model, raised |-> FALSE, evals |-> u.evals]

\* A mutant of step: the counter is not incremented.
step_no_increment(o, m) ==
    LET u == _update_lr([o EXCEPT !._step = @ + 1])
        a == AdamStep([u.opt EXCEPT !._step = o._step], m)
    IN  [opt |-> a.opt, model |-> a.model, raised |-> FALSE, evals |-> u.evals]

\* NoamOpt.step: _step += 1, _update_lr(), opt.step().
step(o, m) ==
    LET o1 == [o EXCEPT !._step = @ + 1]
        u  == _update_lr(o1)
        a  == AdamStep(u.opt, m)
    IN  IF u.raised
        THEN [opt |-> o1, model |-> m, raised |-> TRUE, evals |-> u.evals]
        ELSE [opt |-> a.opt, model |-> a.model, raised |-> FALSE, evals |-> u.evals]

\* Trainer.train_step: model.train(), opt.zero_grad(), loss_fn (a KeyError on a
\* batch without its keys), loss.backward(), opt.step().
train_step(o, m, batch) ==
    LET m1 == [m EXCEPT !.training = TRUE, !.grad = NoGrad]
        m2 == [m1 EXCEPT !.grad = batch]
        s  == step(o, m2)
    IN  IF batch = Malformed
        THEN [opt |-> o, model |-> m1, outcome |-> "KeyError", evals |-> {}]
        ELSE [opt |-> s.opt, model |-> s.model, evals |-> s.evals,
              outcome |-> IF s.raised THEN "ZeroDivisionError" ELSE "returned"]

\* A mutant of eval_step: model.eval() is left out.
eval_step_keeps_mode(o, m, batch) ==
    [opt |-> o, model |-> m,
     outcome |-> IF batch = Malformed THEN "KeyError" ELSE "returned"]

\* Trainer.eval_step: model.eval(), then loss_fn under torch.no_grad().
eval_step(o, m, batch) ==
    [opt |-> o, model |-> [m EXCEPT !.training = FALSE],
     outcome |-> IF batch = Malformed THEN "KeyError" ELSE "returned"]

\* The dictionary save_checkpoint builds.  NoamOpt defines no state_dict; where
\* one is supposed, it is the wrapped Adam's: its state and its parameter groups.
Checkpoint(o, m) ==
    [kind |-> "checkpoint", model |-> m.params,
     opt |-> [state |-> o.state, param_groups |-> o.param_groups],
     step |-> o._step]

\* Trainer.save_checkpoint: the dictionary is built before torch.save is called,
\* and self.opt.state_dict() is an AttributeError on a NoamOpt.
save_checkpoint(o, m, d, path) ==
    IF "state_dict" \in NoamOptMethods
    THEN [disk |-> [d EXCEPT ![path] = Checkpoint(o, m)], outcome |-> "returned"]
    ELSE [disk |-> d, outcome |-> "AttributeError"]

\* Trainer.load_checkpoint: torch.load, model.load_state_dict, then
\* self.opt.load_state_dict, an AttributeError on a NoamOpt, then _step.
load_checkpoint(o, m, d, path) ==
    LET state == d[path]
        m1    == [m EXCEPT !.params = state.model]
    IN  IF state.kind = "none"
        THEN [opt |-> o, model |-> m, outcome |-> "FileNotFoundError"]
        ELSE IF "load_state_dict" \notin NoamOptMethods
        THEN [opt |-> o, model |-> m1, outcome |-> "AttributeError"]
        ELSE [opt |-> [o EXCEPT !.state = state.opt.state,
                                !.param_groups = state.opt.param_groups,
                                !._step = state.step],
              model |-> m1, outcome |-> "returned"]

\* The Trainer after k successful train_step calls on batch b1.
RECURSIVE Trained(_, _, _)
Trained(k, o, m) ==
    IF k = 0 THEN [opt |-> o, model |-> m]
    ELSE LET r == train_step(o, m, "b1") IN Trained(k - 1, r.opt, r.model)

\* A checkpoint file found at a path: the three fields save_checkpoint names,
\* taken from a Trainer of the same shape after k steps.
FoundCheckpoint(k, n, d, w) ==
    LET t == Trained(k, NoamOpt(n, d, w), NewModel) IN Checkpoint(t.opt, t.model)

NoCall == [op |-> "none", outcome |-> "none", path |-> "none"]

(***************************************************************************)
(* SimpleTextDataset: the windows over the token stream.                   *)
(***************************************************************************)
Tokens  == 0..MaxTokenId
Streams == UNION {[1..n -> Tokens] : n \in 0..MaxLen}

\* s[lo:hi] of Python, which torch follows for a 1-d tensor: a negative bound
\* counts from the end, and both are clamped to the sequence (0-based bounds).
PySlice(s, lo, hi) ==
    LET n == Len(s)
        a == IF lo < 0 THEN Max(lo + n, 0) ELSE Min(lo, n)
        b == IF hi < 0 THEN Max(hi + n, 0) ELSE Min(hi, n)
    IN  IF a < b THEN SubSeq(s, a + 1, b) ELSE <<>>

\* SimpleTextDataset.__len__.
__len__(d, b) == Len(d) - b

\* A mutant of __getitem__: the target ends where the input ends.
getitem_target_end(d, b, index) ==
    [input  |-> PySlice(d, index, index + b),
     target |-> PySlice(d, index + 1, index + b)]

\* SimpleTextDataset.__getitem__.
__getitem__(d, b, index) ==
    [input  |-> PySlice(d, index, index + b),
     target |-> PySlice(d, index + 1, index + b + 1)]

(***************************************************************************)
(* The tokenizer builder, SimpleTextDataset.__init__ and their cache files.*)
(* A string is the sequence of its pieces, so that an f-string is a        *)
(* concatenation.                                                          *)
(***************************************************************************)
Paths  == {<<"p">>, <<"p", "-", "q">>}
Names  == {"n1", "n2"}
Splits == {<<"train">>, <<"test">>}

\* f"{path}-tokenizer.json"
TokenizerFile(path) == path \o <<"-", "tokenizer.json">>

\* f"{path}-{split}-tokenized.pt"
StreamFile(path, split) == path \o <<"-">> \o split \o <<"-", "tokenized.pt">>

FileNames == {TokenizerFile(p) : p \in Paths}
                 \cup {StreamFile(p, s) : p \in Paths, s \in Splits}

\* load_dataset(path, name, split) with its empty rows filtered out.
Corpus(path, name, split) == [path |-> path, name |-> name, split |-> split]
Corpora == {Corpus(p, n, s) : p \in Paths, n \in Names, s \in Splits}

\* The BPE tokenizer train_from_iterator leaves: a function of the corpus.
Train(raw_dataset) == [kind |-> "tokenizer", trained_on |-> raw_dataset]

\* The token stream of a corpus under a tokenizer.
Encode(tokenizer, raw_dataset) ==
    [kind |-> "tokens", tokenizer |-> tokenizer, corpus |-> raw_dataset]

Exists(fs, f) == fs[f].kind # "none"

\* A mutant of create_train_tokenizer: the trained tokenizer is not saved.
create_train_tokenizer_no_save(fs, raw_dataset, tokenizer_file_path) ==
    IF ~Exists(fs, tokenizer_file_path)
    THEN [files |-> fs, tokenizer |-> Train(raw_dataset),
          trained |-> TRUE, writes |-> <<>>]
    ELSE [files |-> fs, tokenizer |-> fs[tokenizer_file_path],
          trained |-> FALSE, writes |-> <<>>]

\* A mutant of create_train_tokenizer: it trains and saves whether or not the
\* file exists.
create_train_tokenizer_always(fs, raw_dataset, tokenizer_file_path) ==
    [files |-> [fs EXCEPT ![tokenizer_file_path] = Train(raw_dataset)],
     tokenizer |-> Train(raw_dataset),
     trained |-> TRUE, writes |-> <<tokenizer_file_path>>]

\* create_train_tokenizer: train and save when no file exists at the path,
\* Tokenizer.from_file otherwise.
create_train_tokenizer(fs, raw_dataset, tokenizer_file_path) ==
    IF ~Exists(fs, tokenizer_file_path)
    THEN [files |-> [fs EXCEPT ![tokenizer_file_path] = Train(raw_dataset)],
          tokenizer |-> Train(raw_dataset),
          trained |-> TRUE, writes |-> <<tokenizer_file_path>>]
    ELSE [files |-> fs, tokenizer |-> fs[tokenizer_file_path],
          trained |-> FALSE, writes |-> <<>>]

\* SimpleTextDataset.__init__: the tokenizer first, then the token stream,
\* loaded when its file exists, encoded and saved otherwise.
SimpleTextDataset(fs, path, name, split) ==
    LET raw_dataset == Corpus(path, name, split)
        t  == create_train_tokenizer(fs, raw_dataset, TokenizerFile(path))
        sf == StreamFile(path, split)
        d  == IF Exists(t.files, sf) THEN t.files[sf]
              ELSE Encode(t.tokenizer, raw_dataset)
    IN  [files    |-> IF Exists(t.files, sf) THEN t.files
                      ELSE [t.files EXCEPT ![sf] = d],
         writes   |-> IF Exists(t.files, sf) THEN t.writes ELSE t.writes \o <<sf>>,
         trained  |-> t.trained,
         instance |-> [path |-> path, name |-> name, split |-> split,
                       tokenizer |-> t.tokenizer, data |-> d]]

(***************************************************************************)
(* The variables of the other specifications, at rest.                     *)
(***************************************************************************)
LrIdle      == lrTrace = <<>>
WindowIdle  == data = <<>> /\ block_size = 1 /\ result = [op |-> "none"]
CacheIdle   == /\ files = [f \in FileNames |-> NoFile]
               /\ instances = <<>> /\ calls = <<>> /\ writeLog = <<>>
TrainerIdle == /\ opt = NoamOpt(1, 1, 1) /\ model = NewModel
               /\ disk = [p \in CkptPaths |-> NoFile]
               /\ last = NoCall /\ lrEvals = {}

(***************************************************************************)
(* Spec: a Trainer.  Trainer.__init__ builds NoamOpt(model.parameters(),   *)
(* embed_dim = model.embed_dim, warmup_steps = 4000); the model lets the   *)
(* constructor arguments of NoamOpt range over small sets, so that a run   *)
(* of MaxSteps steps passes the warm-up.                                   *)
(***************************************************************************)
Init ==
    /\ \E n \in 1..MaxGroups, d \in 1..MaxDim, w \in 1..MaxWarmup :
          /\ opt = NoamOpt(n, d, w)
          /\ disk \in [CkptPaths ->
                        {NoFile} \cup {FoundCheckpoint(k, n, d, w) : k \in 0..MaxCkptStep}]
    /\ model = NewModel
    /\ last = NoCall
    /\ lrEvals = {}
    /\ LrIdle /\ WindowIdle /\ CacheIdle

TrainStep(batch) ==
    /\ opt._step < MaxSteps
    /\ LET r == train_step(opt, model, batch)
       IN  /\ opt' = r.opt
           /\ model' = r.model
           /\ lrEvals' = lrEvals \cup r.evals
           /\ last' = [op |-> "train_step", outcome |-> r.outcome, path |-> "none"]
    /\ UNCHANGED <<disk, lrVars, windowVars, cacheVars>>

EvalStep(batch) ==
    /\ LET r == eval_step(opt, model, batch)
       IN  /\ opt' = r.opt
           /\ model' = r.model
           /\ last' = [op |-> "eval_step", outcome |-> r.outcome, path |-> "none"]
    /\ UNCHANGED <<disk, lrEvals, lrVars, windowVars, cacheVars>>

SaveCheckpoint(path) ==
    /\ LET r == save_checkpoint(opt, model, disk, path)
       IN  /\ disk' = r.disk
           /\ last' = [op |-> "save_checkpoint", outcome |-> r.outcome, path |-> path]
    /\ UNCHANGED <<opt, model, lrEvals, lrVars, windowVars, cacheVars>>

LoadCheckpoint(path) ==
    /\ LET r == load_checkpoint(opt, model, disk, path)
       IN  /\ opt' = r.opt
           /\ model' = r.model
           /\ last' = [op |-> "load_checkpoint", outcome |-> r.outcome, path |-> path]
    /\ UNCHANGED <<disk, lrEvals, lrVars, windowVars, cacheVars>>

Next ==
    \/ \E batch \in Batches \cup {Malformed} : TrainStep(batch)
    \/ \E batch \in Batches \cup {Malformed} : EvalStep(batch)
    \/ \E path \in CkptPaths : SaveCheckpoint(path)
    \/ \E path \in CkptPaths : LoadCheckpoint(path)

Spec == Init /\ [][Next]_vars

(***************************************************************************)
(* SpecLr: _lr along t = 1, 2, ... for fixed embed_dim and warmup_steps.   *)
(***************************************************************************)
InitLr ==
    /\ \E d \in 1..LrMaxDim, w \in 1..LrMaxWarmup : opt = NoamOpt(1, d, w)
    /\ model = NewModel
    /\ disk = [p \in CkptPaths |-> NoFile]
    /\ last = NoCall
    /\ lrEvals = {}
    /\ LrIdle /\ WindowIdle /\ CacheIdle

EvaluateLr ==
    /\ opt._step < MaxT
    /\ opt' = [opt EXCEPT !._step = @ + 1]
    /\ lrTrace' = Append(lrTrace, _lr(opt.embed_dim, opt.warmup_steps, opt._step + 1))
    /\ UNCHANGED <<model, disk, last, lrEvals, windowVars, cacheVars>>

NextLr == EvaluateLr

SpecLr == InitLr /\ [][NextLr]_vars

(***************************************************************************)
(* SpecWindow: a dataset over any stream and block size; len(dataset) and  *)
(* dataset[index] are called.                                              *)
(***************************************************************************)
InitWindow ==
    /\ data \in Streams
    /\ block_size \in 1..MaxBlock
    /\ result = [op |-> "none"]
    /\ TrainerIdle /\ LrIdle /\ CacheIdle

\* len(dataset): the built-in raises ValueError when __len__ returns a negative.
LenCall ==
    /\ result' = [op |-> "len", value |-> __len__(data, block_size),
                  outcome |-> IF __len__(data, block_size) < 0
                              THEN "ValueError" ELSE "returned"]
    /\ UNCHANGED <<data, block_size, trainerVars, lrVars, cacheVars>>

GetItemCall(index) ==
    /\ result' = [op |-> "getitem", index |-> index,
                  value |-> __getitem__(data, block_size, index)]
    /\ UNCHANGED <<data, block_size, trainerVars, lrVars, cacheVars>>

NextWindow ==
    \/ LenCall
    \/ \E index \in (0 - MaxLen)..MaxLen : GetItemCall(index)

SpecWindow == InitWindow /\ [][NextWindow]_vars

(***************************************************************************)
(* SpecCache: builder calls and dataset constructions, from no cache file. *)
(* SpecConstruct: the constructions alone.                                 *)
(***************************************************************************)
InitCache ==
    /\ files = [f \in FileNames |-> NoFile]
    /\ instances = <<>>
    /\ calls = <<>>
    /\ writeLog = <<>>
    /\ TrainerIdle /\ LrIdle /\ WindowIdle

Logged(writes, call) == [k \in DOMAIN writes |-> [file |-> writes[k], call |-> call]]

BuilderCall(raw_dataset, path) ==
    /\ Len(calls) < MaxCalls
    /\ LET r == create_train_tokenizer(files, raw_dataset, TokenizerFile(path))
       IN  /\ files' = r.files
           /\ calls' = Append(calls, [caller |-> "direct", file |-> TokenizerFile(path),
                                      existed |-> Exists(files, TokenizerFile(path)),
                                      trained |-> r.trained, returned |-> r.tokenizer])
           /\ writeLog' = writeLog \o Logged(r.writes, Len(calls) + 1)
    /\ UNCHANGED <<instances, trainerVars, lrVars, windowVars>>

Construct(path, name, split) ==
    /\ Len(calls) < MaxCalls
    /\ LET r == SimpleTextDataset(files, path, name, split)
       IN  /\ files' = r.files
           /\ instances' = Append(instances, r.instance)
           /\ calls' = Append(calls, [caller |-> "SimpleTextDataset",
                                      file |-> TokenizerFile(path),
                                      existed |-> Exists(files, TokenizerFile(path)),
                                      trained |-> r.trained,
                                      returned |-> r.instance.tokenizer])
           /\ writeLog' = writeLog \o Logged(r.writes, Len(calls) + 1)
    /\ UNCHANGED <<trainerVars, lrVars, windowVars>>

NextCache ==
    \/ \E raw_dataset \in Corpora, path \in Paths : BuilderCall(raw_dataset, path)
    \/ \E path \in Paths, name \in Names, split \in Splits : Construct(path, name, split)

SpecCache == InitCache /\ [][NextCache]_vars

NextConstruct ==
    \E path \in Paths, name \in Names, split \in Splits : Construct(path, name, split)

SpecConstruct == InitCache /\ [][NextConstruct]_vars

(***************************************************************************)
(* The properties.                                                         *)
(***************************************************************************)

\* C1: for a stream of length L and block size b, dataset[i] with 0 <= i < L-b
\* is input = stream[i : i+b] and target = stream[i+1 : i+b+1], both of length
\* b, with target[k] = input[k+1] for k in [0, b-2] and target[b-1] = stream[i+b]
\* (the sequences of the model count from 1).
WindowShiftedByOne ==
    (result.op = "getitem" /\ 0 <= result.index
                           /\ result.index < Len(data) - block_size) =>
        LET i == result.index
            x == result.value.input
            y == result.value.target
        IN  /\ Len(x) = block_size
            /\ Len(y) = block_size
            /\ \A k \in 1..block_size : x[k] = data[i + k] /\ y[k] = data[i + k + 1]
            /\ \A k \in 1..(block_size - 1) : y[k] = x[k + 1]
            /\ y[block_size] = data[i + block_size + 1]

\* A window past the start of the stream whose target differs from its input.
WindowWitness ==
    /\ result.op = "getitem"
    /\ 0 < result.index
    /\ result.index < Len(data) - block_size
    /\ block_size >= 2
    /\ result.value.input # result.value.target

\* C2: the dataset length is max(L - b, 0): it is never negative and asking
\* for it never raises.
LenIsClamped ==
    result.op = "len" =>
        /\ result.value = Max(Len(data) - block_size, 0)
        /\ result.outcome = "returned"

\* C3: save_checkpoint(path) completes and leaves at path the model
\* parameters, the optimizer state and the step counter of the Trainer;
\* load_checkpoint(path) of such a file completes and leaves the three equal
\* to the file's, so that a save followed by a load changes none of them.
CheckpointRoundTrip ==
    /\ last.op = "save_checkpoint" =>
          /\ last.outcome = "returned"
          /\ disk[last.path] = Checkpoint(opt, model)
    /\ (last.op = "load_checkpoint" /\ disk[last.path].kind = "checkpoint") =>
          /\ last.outcome = "returned"
          /\ Checkpoint(opt, model) = disk[last.path]

\* C4: a load_checkpoint call, returning or raising, leaves the model
\* parameters, the optimizer state and the step counter either all three at the
\* checkpoint's values or all three unchanged.
LoadAtomic ==
    [][last'.op = "load_checkpoint" =>
          \/ /\ disk[last'.path].kind = "checkpoint"
             /\ model'.params = disk[last'.path].model
             /\ opt'.state = disk[last'.path].opt.state
             /\ opt'._step = disk[last'.path].step
          \/ /\ model'.params = model.params
             /\ opt'.state = opt.state
             /\ opt'._step = opt._step]_vars

\* C5: for fixed d and w the rate is > 0 at every t >= 1, strictly increasing
\* up to t = w, strictly decreasing from t = w on, largest at t = w, and it is
\* the linear ramp exactly when t <= w.
LrWarmupThenDecay ==
    LET d == opt.embed_dim
        w == opt.warmup_steps
        n == Len(lrTrace)
    IN  /\ \A t \in 1..n : FracLess(ZeroRate, lrTrace[t])
        /\ \A t \in 1..(n - 1) :
              /\ t + 1 <= w => FracLess(lrTrace[t], lrTrace[t + 1])
              /\ t >= w => FracLess(lrTrace[t + 1], lrTrace[t])
        /\ n >= w => \A t \in 1..n : ~FracLess(lrTrace[w], lrTrace[t])
        /\ \A t \in 1..n : (lrTrace[t] = RampRate(d, w, t)) <=> (t <= w)
        /\ \A t \in 1..n : (lrTrace[t] = DecayRate(d, w, t)) <=> (t >= w)

\* A trajectory with at least two steps of warm-up and two of decay.
LrWitness ==
    /\ opt.warmup_steps >= 3
    /\ Len(lrTrace) >= opt.warmup_steps + 2

\* C6: a builder call trains and writes the tokenizer file exactly when no file
\* exists at the path; over the calls with one path, only the first can train
\* and write, and every later one returns what the first returned.
TokenizerTrainedOnce ==
    /\ \A i \in DOMAIN calls :
          /\ calls[i].trained <=> ~calls[i].existed
          /\ calls[i].trained <=>
                \E k \in DOMAIN writeLog :
                    writeLog[k].call = i /\ writeLog[k].file = calls[i].file
    /\ \A i, j \in DOMAIN calls :
          (i < j /\ calls[i].file = calls[j].file) =>
              /\ ~calls[j].trained
              /\ calls[j].returned = calls[i].returned
    /\ \A p \in Paths :
          Cardinality({k \in DOMAIN writeLog : writeLog[k].file = TokenizerFile(p)}) <= 1

\* Three calls with one path and three different corpora.
TokenizerWitness ==
    /\ Len(calls) >= 3
    /\ calls[1].file = calls[2].file /\ calls[2].file = calls[3].file
    /\ calls[2].returned.trained_on # Corpus(<<"p">>, "n1", <<"train">>)
    /\ \E c \in Corpora : calls[1].returned.trained_on = c
                             /\ c # Corpus(<<"p">>, "n1", <<"train">>)

\* C7: no rate is computed at t = 0; every step() makes one update of the
\* underlying optimizer, the t-th update with the rate of t in every parameter
\* group, and after a train_step that returned every group holds the rate of
\* the current t.
StepOrder ==
    LET d == opt.embed_dim
        w == opt.warmup_steps
    IN  /\ \A t \in lrEvals : t >= 1
        /\ Len(opt.state) = opt._step
        /\ \A t \in 1..Len(opt.state) :
              opt.state[t].lr = [g \in DOMAIN opt.param_groups |-> _lr(d, w, t)]
        /\ opt._step >= 1 =>
              \A g \in DOMAIN opt.param_groups : opt.param_groups[g] = _lr(d, w, opt._step)

\* A step past the warm-up of an optimizer with several groups, made after a
\* load_checkpoint of a checkpoint taken before the first step (the load put
\* back the initial parameters, so fewer updates show in them than were made).
StepOrderWitness ==
    /\ Len(opt.param_groups) >= 2
    /\ opt._step > opt.warmup_steps
    /\ opt.warmup_steps >= 2
    /\ last.op = "train_step" /\ last.outcome = "returned"
    /\ \A p \in CkptPaths : disk[p].kind = "checkpoint" /\ disk[p].step = 0
    /\ Len(model.params) < Len(opt.state)

\* C8: the step counter starts at 0, a train_step that returns adds exactly 1,
\* no other call changes it, and it never decreases.
StepCounterMonotone ==
    /\ opt._step = 0
    /\ [][/\ opt'._step >= opt._step
          /\ (last'.op = "train_step" /\ last'.outcome = "returned") =>
                opt'._step = opt._step + 1
          /\ ~(last'.op = "train_step" /\ last'.outcome = "returned") =>
                opt'._step = opt._step]_vars

\* A load_checkpoint of a checkpoint with a smaller counter, after two steps.
StepCounterWitness ==
    /\ opt._step >= 2
    /\ last.op = "load_checkpoint"
    /\ disk[last.path].kind = "checkpoint"
    /\ disk[last.path].step < opt._step

\* C9: eval_step changes neither the parameters, nor the optimizer state, the
\* rates of the groups or the step counter; it leaves the model in eval mode,
\* and only a train_step takes the model out of eval mode.
EvalStepFrame ==
    [][/\ last'.op = "eval_step" =>
             /\ opt' = opt
             /\ model'.params = model.params
             /\ model'.grad = model.grad
             /\ disk' = disk
             /\ ~model'.training
       /\ (~model.training /\ model'.training) => last'.op = "train_step"]_vars

\* An eval_step after training, and a model in eval mode.
EvalStepWitness ==
    /\ last.op = "eval_step"
    /\ ~model.training
    /\ opt._step >= 2
    /\ model.grad # NoGrad

\* C10: from no cache file, after any constructions: the tokenizer file of a
\* path was written once, by the first construction for the path, before any
\* token-stream file of the path; every token-stream file of the path was
\* encoded with the tokenizer in that file; and the stream of each instance
\* was encoded with the tokenizer the instance holds.
CacheConsistent ==
    /\ \A p \in Paths :
          (\E i \in DOMAIN instances : instances[i].path = p) =>
              LET first == CHOOSE i \in DOMAIN instances :
                              /\ instances[i].path = p
                              /\ \A j \in 1..(i - 1) : instances[j].path # p
                  tw    == {k \in DOMAIN writeLog : writeLog[k].file = TokenizerFile(p)}
              IN  /\ Cardinality(tw) = 1
                  /\ \A k \in tw :
                        /\ writeLog[k].call = first
                        /\ \A l \in DOMAIN writeLog, s \in Splits :
                              writeLog[l].file = StreamFile(p, s) => k < l
    /\ \A p \in Paths, s \in Splits :
          Exists(files, StreamFile(p, s)) =>
              /\ Exists(files, TokenizerFile(p))
              /\ files[StreamFile(p, s)].tokenizer = files[TokenizerFile(p)]
    /\ \A i \in DOMAIN instances :
          /\ instances[i].tokenizer = files[TokenizerFile(instances[i].path)]
          /\ instances[i].data.tokenizer = instances[i].tokenizer

\* Three constructions for one path: the second loads the stream the first
\* saved, under another name; the third encodes another split.
CacheWitness ==
    /\ Len(instances) >= 3
    /\ instances[1].path = instances[2].path /\ instances[2].path = instances[3].path
    /\ instances[1].split = instances[2].split
    /\ instances[1].name # instances[2].name
    /\ instances[3].split # instances[1].split
    /\ instances[3].data.corpus # instances[3].tokenizer.trained_on
====
